---- MODULE Spec2Model ----
(***************************************************************************)
(* A model of the NineChronicles.EthBridge core:                           *)
(*   - TriggerableMonitor.loop, the confirmed-block driver                 *)
(*     (bridge/src/monitors/triggerable-monitor.ts),                       *)
(*   - NCGKMSTransfer.transfer, the mutex-serialized signer path           *)
(*     (bridge/src/ncg-kms-transfer.ts),                                   *)
(*   - WrappedNCGMinter.mint (bridge/src/wrapped-ncg-minter.ts),           *)
(*   - the startup checks and the wiring of monitors, observers and        *)
(*     stores (bridge/src/index.ts).                                       *)
(* Each part is explored under its own specification over one set of       *)
(* variables: MonitorSpec, TransferSpec, AmountSpec (the amount and the    *)
(* memo of one transfer), MinterSpec and StartupSpec; MonitorLiveSpec      *)
(* and TransferLiveSpec add the fairness the liveness properties need.     *)
(***************************************************************************)
EXTENDS Integers, Sequences, FiniteSets, TLC

\* ----------------------------------------------------------------- bounds

\* Confirmed block indices run over 0..MaxTip.
MaxTip == 4
\* How many RPC failures the environment may inject into one run.
MaxErrors == 2
\* How many times the clock advances.
MaxTicks == 2
\* One clock step, in poll delays.
SleepsPerTick == 20
\* How many times the process is restarted.
MaxRestarts == 1
\* K: how many transfer calls the observers make.
MaxCalls == 2
\* How many transfer calls wait for the mutex at once in TransferLiveSpec.
MaxWaiters == 2
\* How many unsigned transactions the node builds in TransferLiveSpec.
MaxNonce == 2
\* How many endpoints STAGE_HEADLESSES names.
StageHeadlesses == 1
\* Gas prices and gas price caps run over 0..MaxGasPrice.
MaxGasPrice == 5
\* The most decimal places an amount argument has (a wNCG amount has 18).
MaxDecimals == 18

\* ------------------------------------------------------ program constants

\* index.ts: const CONFIRMATIONS = 10
CONFIRMATIONS == 10
\* latestBlockNumber: number | undefined, before loop() assigns it
Undefined == -1
\* delayMilliseconds: number = 15 * 1000
delayMilliseconds == 15 * 1000
\* const TIMEOUT = 5 * 60 * 1000
TIMEOUT == 5 * 60 * 1000
\* [integration]: the integrations each monitor is constructed with
Integrations == {"pagerduty"}

VARIABLES
    \* ---- monitor (one TriggerableMonitor instance and its observer)
    network,        \* "ethereum" | "nineChronicles": which monitor this is
    hook,           \* which triggerredBlocks the subclass provides
    resume,         \* _latestTransactionLocation: <<>> (null) or <<location>>
    mpc,            \* position of the generator loop()
    latest,         \* latestBlockNumber
    updatedAt,      \* updatedAt, in ms
    now,            \* the wall clock, in ms
    actualTip,      \* the chain's tip
    tipIndex,       \* const tipIndex of the current iteration
    indices,        \* trigerredBlockIndexes of the current iteration
    k,              \* position of the for loop in indices
    blockHash,      \* const blockHash of the current for-loop body
    remained,       \* remainedEvents not yet yielded
    nextBlockIndex, \* nextBlockIndex returned by processRemains
    yielded,        \* the envelopes yielded in this run, in order
    captured,       \* number of captureException calls in this run
    alert,          \* integration.error() calls of the latest iteration
    savedCursors,   \* every cursor the cursor store has held
    history,        \* the exchange history store
    emitted,        \* counter-chain emissions per source txId
    restarts,       \* how many times the process was restarted
    startingTip,    \* the tip index a fresh start read, else Undefined
    \* ---- transfer (the one NCGKMSTransfer instance both observers share)
    tpc,            \* per transfer call: its position in transfer()
    amount,         \* per call: the amount argument
    memo,           \* per call: the memo argument, <<>> (null) or <<string>>
    mutexLocked,    \* _mutex: held
    mutexQueue,     \* _mutex: the calls waiting, in arrival order
    nextNonce,      \* the primary node's next nonce for the sender
    unsignedTx,     \* per call: const unsignedTx
    tx,             \* per call: const tx
    stage,          \* per call, per client: the state of its stageTx call
    result,         \* per call: <<>> while pending, else what it settled to
    rpc,            \* per call: the requests it has sent, in order
    \* ---- minter (one WrappedNCGMinter.mint call)
    gpc,            \* position of the mint call
    gasTipRatio,    \* _gasTipRatio: the constructor's fourth argument
    maxGasPrice,    \* MAX_GAS_PRICE
    gasPrice,       \* const gasPrice, as the node reported it
    sentGasPrice,   \* the gasPrice option of the mint transaction sent
    invoked,        \* the callbacks invoked, in order
    \* ---- startup (the async function of index.ts)
    spc,            \* position of the async function
    env,            \* the configuration and what the collaborators answer
    exit,           \* <<>> while the process lives, else <<exit code>>
    started         \* the monitors whose run() was called

mvars == <<network, hook, resume, mpc, latest, updatedAt, now, actualTip,
           tipIndex, indices, k, blockHash, remained, nextBlockIndex,
           yielded, captured, alert, savedCursors, history, emitted,
           restarts, startingTip>>

tvars == <<tpc, amount, memo, mutexLocked, mutexQueue, nextNonce,
           unsignedTx, tx, stage, result, rpc>>

gvars == <<gpc, gasTipRatio, maxGasPrice, gasPrice, sentGasPrice, invoked>>

svars == <<spc, env, exit, started>>

vars == <<mvars, tvars, gvars, svars>>

\* ------------------------------------------------------------- the chain

\* Number of events of block i (blocks with 0, 1 and 2 events occur).
NumTx(i) == i % 3

TxIds == UNION {{<<b, t>> : t \in 1..NumTx(b)} : b \in 0..MaxTip}

\* getBlockHash / getBlockIndex of the subclass: the canonical chain.
getBlockHash(i) == <<"hash", i>>
getBlockIndex(h) == h[2]

\* getEvents(blockIndex): the block's events in on-chain order.
getEvents(i) ==
    [t \in 1..NumTx(i) |-> [blockHash |-> getBlockHash(i), txId |-> <<i, t>>]]

\* getTipIndex(): the subclass returns actualTip - CONFIRMATIONS.
getTipIndex == actualTip - CONFIRMATIONS

\* A stored TransactionLocation.
Location(b, t) == [blockHash |-> getBlockHash(b), txId |-> <<b, t>>]

\* triggerredBlocks(blockIndex): the identity hook, or a hook that injects a
\* second processing step for the block it is asked about.
triggerredBlocks(i) == IF hook = "identity" THEN <<i>> ELSE <<i, i>>

\* processRemains(loc): the events of the cursor's block after the stored
\* txId, then every block up to the tip; nextBlockIndex = tip + 1.
RECURSIVE DropThrough(_, _)
DropThrough(events, txId) ==
    IF events = <<>> THEN <<>>
    ELSE IF Head(events).txId = txId THEN Tail(events)
    ELSE DropThrough(Tail(events), txId)

processRemains(loc) ==
    LET blockIndex == getBlockIndex(loc.blockHash)
        tip == getTipIndex
    IN  [nextBlockIndex |-> tip + 1,
         remainedEvents |->
            [n \in 1..(tip - blockIndex + 1) |->
                LET b == blockIndex + n - 1 IN
                [blockHash |-> getBlockHash(b),
                 events |-> IF b = blockIndex
                            THEN DropThrough(getEvents(b), loc.txId)
                            ELSE getEvents(b)]]]

\* ----------------------------------------------------------- the observer

\* index.ts: NCGTransferredEventObserver is constructed with
\* exchangeHistoryStore, EthereumBurnEventObserver is not.
HistoryWired == network = "nineChronicles"

SeqRange(s) == {s[n] : n \in 1..Len(s)}

\* The observer's handling of one envelope: every event that the history
\* store does not already hold is recorded and emitted on the counter-chain,
\* then the cursor is saved.
ToEmit(events) ==
    {e.txId : e \in {x \in SeqRange(events) : ~(HistoryWired /\ x.txId \in history)}}

Notify(envelope) ==
    /\ emitted' = [x \in DOMAIN emitted |->
                      IF x \in ToEmit(envelope.events)
                      THEN emitted[x] + 1 ELSE emitted[x]]
    /\ history' = IF HistoryWired
                  THEN history \cup ToEmit(envelope.events) ELSE history
    /\ savedCursors' =
          IF envelope.events = <<>> THEN savedCursors
          ELSE savedCursors \cup
               {[blockHash |-> envelope.blockHash,
                 txId |-> envelope.events[Len(envelope.events)].txId]}

\* yield envelope: the envelope is handed to the attached observer before the
\* generator is resumed.
Yield(envelope, phase) ==
    /\ yielded' = Append(yielded,
                     [block |-> getBlockIndex(envelope.blockHash),
                      phase |-> phase])
    /\ Notify(envelope)

\* ------------------------------------------------------------ the monitor

MonitorInit ==
    /\ network \in {"ethereum", "nineChronicles"}
    /\ hook \in {"identity", "steps"}
    /\ actualTip \in {CONFIRMATIONS + 1, CONFIRMATIONS + 2}
    /\ resume \in {<<>>} \cup
                  {<<Location(id[1], id[2])>> :
                      id \in {x \in TxIds : x[1] <= getTipIndex}}
    /\ mpc = "start"
    /\ latest = Undefined
    /\ updatedAt = Undefined
    /\ now = 0
    /\ tipIndex = Undefined
    /\ indices = <<>>
    /\ k = 1
    /\ blockHash = <<>>
    /\ remained = <<>>
    /\ nextBlockIndex = Undefined
    /\ yielded = <<>>
    /\ captured = 0
    /\ alert = {}
    /\ savedCursors = SeqRange(resume)
    /\ history = {}
    /\ emitted = [x \in TxIds |-> 0]
    /\ restarts = 0
    /\ startingTip = Undefined

chainVars == <<network, hook, actualTip, now, restarts>>
observerVars == <<yielded, savedCursors, history, emitted>>
iterVars == <<tipIndex, indices, k, blockHash>>

\* A mutant of Catch: the handler rethrows, which ends the generator.
CatchRethrows ==
    /\ captured' = captured + 1
    /\ mpc' = "terminated"
    /\ UNCHANGED <<latest, updatedAt>>

\* A mutant of Catch: the handler goes on to the next block.
CatchSkips ==
    /\ captured' = captured + 1
    /\ mpc' = "loop"
    /\ latest' = latest + 1
    /\ updatedAt' = now

\* catch (error): log, captureException(error), and the while loop goes on.
Catch ==
    /\ captured' = captured + 1
    /\ mpc' = "loop"
    /\ UNCHANGED <<latest, updatedAt>>

\* loop(), resuming: await this.processRemains(...) returned.
ProcessRemains ==
    /\ mpc = "start"
    /\ resume # <<>>
    /\ remained' = processRemains(resume[1]).remainedEvents
    /\ nextBlockIndex' = processRemains(resume[1]).nextBlockIndex
    /\ mpc' = "replay"
    /\ UNCHANGED <<tvars, gvars, svars, startingTip, chainVars, observerVars,
                   iterVars, resume, latest, updatedAt, captured, alert>>

\* A mutant of Uncaught: the try encloses the start-up phase too.
UncaughtIsCaught ==
    /\ captured' = captured + 1
    /\ mpc' = "loop"
    /\ UNCHANGED <<latest, updatedAt>>

\* A throw before the while loop is outside its try: the generator ends.
Uncaught ==
    /\ mpc' = "terminated"
    /\ UNCHANGED <<captured, latest, updatedAt>>

\* loop(), resuming: processRemains threw; nothing catches it.
ProcessRemainsFails ==
    /\ mpc = "start"
    /\ resume # <<>>
    /\ Uncaught
    /\ UNCHANGED <<tvars, gvars, svars, startingTip, chainVars, observerVars,
                   iterVars, resume, alert, remained, nextBlockIndex>>

\* for (const remainedEvent of remainedEvents) yield remainedEvent;
YieldRemained ==
    /\ mpc = "replay"
    /\ remained # <<>>
    /\ Yield(Head(remained), "remained")
    /\ remained' = Tail(remained)
    /\ UNCHANGED <<tvars, gvars, svars, startingTip, chainVars, iterVars,
                   resume, mpc, latest, updatedAt, captured, alert,
                   nextBlockIndex>>

\* this.latestBlockNumber = nextBlockIndex; this.updatedAt = new Date();
AfterRemained ==
    /\ mpc = "replay"
    /\ remained = <<>>
    /\ latest' = nextBlockIndex
    /\ updatedAt' = now
    /\ mpc' = "loop"
    /\ UNCHANGED <<tvars, gvars, svars, startingTip, chainVars, observerVars,
                   iterVars, resume, captured, alert, remained,
                   nextBlockIndex>>

\* A mutant of FreshStart: latestBlockNumber starts one block behind the tip.
FreshStartBehindTip ==
    /\ mpc = "start"
    /\ resume = <<>>
    /\ latest' = getTipIndex - 1
    /\ startingTip' = getTipIndex
    /\ updatedAt' = now
    /\ mpc' = "loop"
    /\ UNCHANGED <<tvars, gvars, svars, chainVars, observerVars, iterVars,
                   resume, captured, alert, remained, nextBlockIndex>>

\* this.latestBlockNumber = await this.getTipIndex(); this.updatedAt = ...
FreshStart ==
    /\ mpc = "start"
    /\ resume = <<>>
    /\ latest' = getTipIndex
    /\ startingTip' = getTipIndex
    /\ updatedAt' = now
    /\ mpc' = "loop"
    /\ UNCHANGED <<tvars, gvars, svars, chainVars, observerVars, iterVars,
                   resume, captured, alert, remained, nextBlockIndex>>

\* The initial getTipIndex threw; nothing catches it.
FreshStartFails ==
    /\ mpc = "start"
    /\ resume = <<>>
    /\ Uncaught
    /\ UNCHANGED <<tvars, gvars, svars, startingTip, chainVars, observerVars,
                   iterVars, resume, alert, remained, nextBlockIndex>>

\* A mutant of Triggered: if (this.latestBlockNumber <= tipIndex)
TriggeredOffByOne(tip) == latest <= tip

\* if (this.latestBlockNumber + 1 <= tipIndex)
Triggered(tip) == latest + 1 <= tip

\* Top of the while loop, a block to process:
\* tipIndex = await getTipIndex(); indexes = triggerredBlocks(latest + 1)
PollTriggered ==
    /\ mpc = "loop"
    /\ Triggered(getTipIndex)
    /\ tipIndex' = getTipIndex
    /\ indices' = triggerredBlocks(latest + 1)
    /\ k' = 1
    /\ alert' = {}
    /\ mpc' = "for"
    /\ UNCHANGED <<tvars, gvars, svars, startingTip, chainVars, observerVars,
                   resume, latest, updatedAt, captured, blockHash, remained,
                   nextBlockIndex>>

\* A mutant of TimedOut: >= TIMEOUT
TimedOutAtLimit == (now - updatedAt) >= TIMEOUT

\* if ((+current - +this.updatedAt) > TIMEOUT)
TimedOut == (now - updatedAt) > TIMEOUT

\* A mutant of PollAtTip: firing the alert resets the progress timestamp.
PollAtTipResets ==
    /\ mpc = "loop"
    /\ ~Triggered(getTipIndex)
    /\ tipIndex' = getTipIndex
    /\ alert' = IF TimedOut
                THEN {[integration |-> i, latestBlockNumber |-> latest] :
                         i \in Integrations}
                ELSE {}
    /\ mpc' = "delay"
    /\ updatedAt' = IF TimedOut THEN now ELSE updatedAt
    /\ UNCHANGED <<tvars, gvars, svars, startingTip, chainVars, observerVars,
                   resume, latest, captured, indices, k, blockHash,
                   remained, nextBlockIndex>>

\* Top of the while loop, at tip: the liveness check, then delay().
PollAtTip ==
    /\ mpc = "loop"
    /\ ~Triggered(getTipIndex)
    /\ tipIndex' = getTipIndex
    /\ alert' = IF TimedOut
                THEN {[integration |-> i, latestBlockNumber |-> latest] :
                         i \in Integrations}
                ELSE {}
    /\ mpc' = "delay"
    /\ UNCHANGED <<tvars, gvars, svars, startingTip, chainVars, observerVars,
                   resume, latest, updatedAt, captured, indices, k, blockHash,
                   remained, nextBlockIndex>>

\* A mutant of Delay: the timer never resolves.
DelayNeverResolves ==
    /\ mpc = "delay"
    /\ UNCHANGED vars

\* await delay(this._delayMilliseconds) resolved.
Delay ==
    /\ mpc = "delay"
    /\ mpc' = "loop"
    /\ UNCHANGED <<tvars, gvars, svars, startingTip, chainVars, observerVars,
                   iterVars, resume, latest, updatedAt, captured, alert,
                   remained, nextBlockIndex>>

\* await this.getTipIndex() threw inside the while loop.
GetTipIndexFails ==
    /\ mpc = "loop"
    /\ captured < MaxErrors
    /\ Catch
    /\ alert' = {}
    /\ UNCHANGED <<tvars, gvars, svars, startingTip, chainVars, observerVars,
                   iterVars, resume, remained, nextBlockIndex>>

\* this.triggerredBlocks(...) threw.
TriggerredBlocksFails ==
    /\ mpc = "loop"
    /\ Triggered(getTipIndex)
    /\ captured < MaxErrors
    /\ tipIndex' = getTipIndex
    /\ Catch
    /\ alert' = {}
    /\ UNCHANGED <<tvars, gvars, svars, startingTip, chainVars, observerVars,
                   indices, k, blockHash, resume, remained, nextBlockIndex>>

\* const blockHash = await this.getBlockHash(blockIndex);
GetBlockHash ==
    /\ mpc = "for"
    /\ k <= Len(indices)
    /\ blockHash' = getBlockHash(indices[k])
    /\ mpc' = "events"
    /\ UNCHANGED <<tvars, gvars, svars, startingTip, chainVars, observerVars,
                   tipIndex, indices, k, resume, latest, updatedAt, captured,
                   alert, remained, nextBlockIndex>>

GetBlockHashFails ==
    /\ mpc = "for"
    /\ k <= Len(indices)
    /\ captured < MaxErrors
    /\ Catch
    /\ UNCHANGED <<tvars, gvars, svars, startingTip, chainVars, observerVars,
                   iterVars, resume, alert, remained, nextBlockIndex>>

\* yield { blockHash, events: await this.getEvents(blockIndex) }
YieldBlock ==
    /\ mpc = "events"
    /\ Yield([blockHash |-> blockHash, events |-> getEvents(indices[k])],
             "main")
    /\ k' = k + 1
    /\ mpc' = "for"
    /\ UNCHANGED <<tvars, gvars, svars, startingTip, chainVars, tipIndex,
                   indices, blockHash, resume, latest, updatedAt, captured,
                   alert, remained, nextBlockIndex>>

GetEventsFails ==
    /\ mpc = "events"
    /\ captured < MaxErrors
    /\ Catch
    /\ UNCHANGED <<tvars, gvars, svars, startingTip, chainVars, observerVars,
                   iterVars, resume, alert, remained, nextBlockIndex>>

\* A mutant of Advanced: this.latestBlockNumber = tipIndex
AdvancedToTip == tipIndex

\* this.latestBlockNumber += 1
Advanced == latest + 1

\* this.latestBlockNumber += 1; this.updatedAt = new Date();
Advance ==
    /\ mpc = "for"
    /\ k > Len(indices)
    /\ latest' = Advanced
    /\ updatedAt' = now
    /\ mpc' = "loop"
    /\ UNCHANGED <<tvars, gvars, svars, startingTip, chainVars, observerVars,
                   iterVars, resume, captured, alert, remained,
                   nextBlockIndex>>

\* ------------------------------------------------------- the environment

\* The chain grows by one block.
TipAdvance ==
    /\ actualTip < CONFIRMATIONS + MaxTip
    /\ actualTip' = actualTip + 1
    /\ UNCHANGED <<tvars, gvars, svars, startingTip, network, hook, now,
                   restarts, observerVars, iterVars, resume, mpc, latest,
                   updatedAt, captured, alert, remained, nextBlockIndex>>

\* Time passes.
Tick ==
    /\ now < MaxTicks * SleepsPerTick * delayMilliseconds
    /\ now' = now + SleepsPerTick * delayMilliseconds
    /\ UNCHANGED <<tvars, gvars, svars, startingTip, network, hook, actualTip,
                   restarts, observerVars, iterVars, resume, mpc, latest,
                   updatedAt, captured, alert, remained, nextBlockIndex>>

\* The process is restarted; index.ts constructs the monitor with a cursor
\* loaded from the cursor store.  The stores and the chains persist.
Restart ==
    /\ restarts < MaxRestarts
    /\ restarts' = restarts + 1
    /\ resume' \in IF savedCursors = {} THEN {<<>>}
                   ELSE {<<c>> : c \in savedCursors}
    /\ mpc' = "start"
    /\ latest' = Undefined
    /\ startingTip' = Undefined
    /\ updatedAt' = Undefined
    /\ tipIndex' = Undefined
    /\ indices' = <<>>
    /\ k' = 1
    /\ blockHash' = <<>>
    /\ remained' = <<>>
    /\ nextBlockIndex' = Undefined
    /\ yielded' = <<>>
    /\ captured' = 0
    /\ alert' = {}
    /\ UNCHANGED <<tvars, gvars, svars, network, hook, actualTip, now,
                   savedCursors, history, emitted>>

MonitorNext ==
    \/ ProcessRemains
    \/ ProcessRemainsFails
    \/ YieldRemained
    \/ AfterRemained
    \/ FreshStart
    \/ FreshStartFails
    \/ PollTriggered
    \/ PollAtTip
    \/ Delay
    \/ GetTipIndexFails
    \/ TriggerredBlocksFails
    \/ GetBlockHash
    \/ GetBlockHashFails
    \/ YieldBlock
    \/ GetEventsFails
    \/ Advance
    \/ TipAdvance
    \/ Tick
    \/ Restart

\* The steps of loop() itself: each is the generator resuming after an
\* awaited call returned, which the event loop always gets to.
MonitorStep ==
    \/ ProcessRemains
    \/ YieldRemained
    \/ AfterRemained
    \/ FreshStart
    \/ PollTriggered
    \/ PollAtTip
    \/ Delay
    \/ GetBlockHash
    \/ YieldBlock
    \/ Advance

\* One run of loop(), from its start, with no restart of the process: its
\* steps, the failures of its awaited calls, the chain growing and time
\* passing.
MonitorRunNext ==
    \/ MonitorStep
    \/ ProcessRemainsFails
    \/ FreshStartFails
    \/ GetTipIndexFails
    \/ TriggerredBlocksFails
    \/ GetBlockHashFails
    \/ GetEventsFails
    \/ TipAdvance
    \/ Tick

\* ------------------------------------------------------------ the transfer

Calls == 1..MaxCalls

\* The calls of TransferLiveSpec that are pending at one time: one that
\* holds the mutex and MaxWaiters more.
LiveCalls == 1..(MaxWaiters + 1)

\* Every call the per-call variables have a place for.
AllCalls == Calls \cup LiveCalls

\* [headlessGraphQLCLient, ...stageGraphQLClients]; client 1 is the primary.
Clients == 1..(1 + StageHeadlesses)

\* The amount argument, a decimal string: the digits before and after the
\* point, or a string new Decimal() rejects.  "50.011" is the example of the
\* comment above ncgAmount.
NotDecimal == [valid |-> FALSE, int |-> <<>>, frac |-> <<>>]
Amounts == {[valid |-> TRUE, int |-> <<5, 0>>, frac |-> <<0, 1, 1>>],
            NotDecimal}

\* decimal.js: precision, the significant digits an arithmetic result is
\* rounded to (rounding is ROUND_HALF_UP); the library's default.
precision == 20

RECURSIVE StripLeadingZeros(_)
StripLeadingZeros(ds) ==
    IF ds # <<>> /\ Head(ds) = 0 THEN StripLeadingZeros(Tail(ds)) ELSE ds

\* The digit string plus one.
RECURSIVE Increment(_)
Increment(ds) ==
    IF ds = <<>> THEN <<1>>
    ELSE LET front == SubSeq(ds, 1, Len(ds) - 1)
             last == ds[Len(ds)]
         IN IF last < 9 THEN Append(front, last + 1)
            ELSE Append(Increment(front), 0)

\* new Decimal(amount): the value digits * 10^(-scale), kept exactly.
Decimal(a) ==
    [digits |-> StripLeadingZeros(a.int \o a.frac), scale |-> Len(a.frac)]

\* The rounding of an arithmetic result to precision significant digits.
finalise(x) ==
    IF Len(x.digits) <= precision THEN x
    ELSE LET kept == SubSeq(x.digits, 1, precision)
             dropped == Len(x.digits) - precision
         IN [digits |-> IF x.digits[precision + 1] >= 5
                        THEN Increment(kept)
                        ELSE kept,
             scale |-> x.scale - dropped]

\* x.mul(100)
mul100(x) == finalise([x EXCEPT !.scale = @ - 2])

\* x.floor() of a non-negative x: the digits of its integer part.
floor(x) ==
    IF x.scale <= 0
    THEN StripLeadingZeros(x.digits \o [i \in 1..(-x.scale) |-> 0])
    ELSE SubSeq(x.digits, 1, Len(x.digits) - x.scale)

\* toNumber() of an integer below 2^53: its value.
RECURSIVE toNumber(_)
toNumber(ds) ==
    IF ds = <<>> THEN 0
    ELSE 10 * toNumber(SubSeq(ds, 1, Len(ds) - 1)) + ds[Len(ds)]

\* new Decimal(amount).mul(100).floor().toNumber()
ncgAmount(a) == toNumber(floor(mul100(Decimal(a))))

\* Encodings of a byte string, and the digest.
Base64(bytes) == <<"base64", bytes>>
Hex(bytes) == <<"hex", bytes>>
Decode(text) == text[2]
SHA256(bytes) == <<"sha256", bytes>>

\* The memo argument: null, or a string (a refund's memo names its cause).
Memos == {<<>>, <<"refund memo">>}

\* The plainValue of the transfer_asset3 action; its values carry a memo
\* when the memo argument is not null: ...(memo === null ? {} : { memo }).
plainValue(a, m) ==
    LET amountValue == <<[decimalPlaces |-> 2,
                          minters |-> <<"NCG_MINTER">>,
                          ticker |-> "NCG"],
                         ncgAmount(a)>>
    IN [type_id |-> "transfer_asset3",
        values |-> IF m = <<>>
                   THEN [amount |-> amountValue,
                         recipient |-> "address",
                         sender |-> "kmsAddress"]
                   ELSE [amount |-> amountValue,
                         memo |-> m[1],
                         recipient |-> "address",
                         sender |-> "kmsAddress"]]

TransferInit ==
    /\ tpc = [c \in AllCalls |-> "idle"]
    /\ amount = [c \in AllCalls |-> NotDecimal]
    /\ memo = [c \in AllCalls |-> <<>>]
    /\ mutexLocked = FALSE
    /\ mutexQueue = <<>>
    /\ nextNonce = 0
    /\ unsignedTx = [c \in AllCalls |-> <<>>]
    /\ tx = [c \in AllCalls |-> <<>>]
    /\ stage = [c \in AllCalls |-> [e \in Clients |-> "none"]]
    /\ result = [c \in AllCalls |-> <<>>]
    /\ rpc = [c \in AllCalls |-> <<>>]

\* A mutant of headlessGraphQLClient: the last client of the list.
lastGraphQLClient == 1 + StageHeadlesses

\* get headlessGraphQLClient() { return this._headlessGraphQLCLients[0]; }
headlessGraphQLClient == 1

\* A call whose callback starts in this step sends its first request:
\* this.headlessGraphQLClient.createUnsignedTx(base64 of plainValue, key).
Requested ==
    rpc' = [c \in AllCalls |->
               IF tpc'[c] = "createUnsignedTx" /\ tpc[c] # "createUnsignedTx"
               THEN Append(rpc[c],
                           [op |-> "createUnsignedTx",
                            to |-> <<"client", headlessGraphQLClient>>,
                            arg |-> Base64(plainValue(amount'[c],
                                                       memo'[c]))])
               ELSE rpc[c]]

\* A mutant of AllSettled: the first accepting endpoint is enough.
SettledOrAccepted(c) ==
    \/ \E e \in Clients : stage[c][e] = "true"
    \/ \A e \in Clients : stage[c][e] # "pending"

\* await Promise.all(...): every client's promise has settled.
AllSettled(c) == \A e \in Clients : stage[c][e] # "pending"

\* A mutant of Acquire: the callback starts without waiting for the mutex.
AcquireUnserialized(c) ==
    /\ mutexLocked' = TRUE
    /\ tpc' = [tpc EXCEPT ![c] = "createUnsignedTx"]
    /\ UNCHANGED mutexQueue

\* this._mutex.runExclusive(...), entering: the callback starts at once when
\* the mutex is free, else the call waits in the queue.
Acquire(c) ==
    IF mutexLocked
    THEN /\ mutexQueue' = Append(mutexQueue, c)
         /\ tpc' = [tpc EXCEPT ![c] = "waiting"]
         /\ UNCHANGED mutexLocked
    ELSE /\ mutexLocked' = TRUE
         /\ tpc' = [tpc EXCEPT ![c] = "createUnsignedTx"]
         /\ UNCHANGED mutexQueue

\* A mutant of Release: the mutex is released when the callback returned,
\* not when it threw.
ReleaseUnlessThrown(c, settled) ==
    /\ result' = [result EXCEPT ![c] = settled]
    /\ IF mutexQueue = <<>> \/ settled[1] = "error"
       THEN /\ mutexLocked' = (settled[1] = "error")
            /\ tpc' = [tpc EXCEPT ![c] = "done"]
            /\ UNCHANGED mutexQueue
       ELSE /\ mutexLocked' = TRUE
            /\ tpc' = [tpc EXCEPT ![c] = "done",
                                  ![Head(mutexQueue)] = "createUnsignedTx"]
            /\ mutexQueue' = Tail(mutexQueue)

\* A mutant of Release: the mutex passes to the call that waited last.
ReleaseToLast(c, settled) ==
    /\ result' = [result EXCEPT ![c] = settled]
    /\ IF mutexQueue = <<>>
       THEN /\ mutexLocked' = FALSE
            /\ tpc' = [tpc EXCEPT ![c] = "done"]
            /\ UNCHANGED mutexQueue
       ELSE /\ mutexLocked' = TRUE
            /\ tpc' = [tpc EXCEPT ![c] = "done",
                                  ![mutexQueue[Len(mutexQueue)]] =
                                      "createUnsignedTx"]
            /\ mutexQueue' = SubSeq(mutexQueue, 1, Len(mutexQueue) - 1)

\* A mutant of Release: the mutex is freed but no waiting call is woken.
ReleaseWithoutHandOff(c, settled) ==
    /\ result' = [result EXCEPT ![c] = settled]
    /\ mutexLocked' = FALSE
    /\ tpc' = [tpc EXCEPT ![c] = "done"]
    /\ UNCHANGED mutexQueue

\* this._mutex.runExclusive(...), leaving (it returned or threw): the mutex
\* is released, passing to the first waiting call if there is one, and the
\* promise of transfer() settles.
Release(c, settled) ==
    /\ result' = [result EXCEPT ![c] = settled]
    /\ IF mutexQueue = <<>>
       THEN /\ mutexLocked' = FALSE
            /\ tpc' = [tpc EXCEPT ![c] = "done"]
            /\ UNCHANGED mutexQueue
       ELSE /\ mutexLocked' = TRUE
            /\ tpc' = [tpc EXCEPT ![c] = "done",
                                  ![Head(mutexQueue)] = "createUnsignedTx"]
            /\ mutexQueue' = Tail(mutexQueue)

\* transfer(address, amount, memo) is called.
Transfer(c, a, m) ==
    /\ tpc[c] = "idle"
    /\ amount' = [amount EXCEPT ![c] = a]
    /\ memo' = [memo EXCEPT ![c] = m]
    /\ IF a.valid
       THEN /\ Acquire(c)
            /\ UNCHANGED result
       ELSE /\ tpc' = [tpc EXCEPT ![c] = "done"]
            /\ result' = [result EXCEPT ![c] = <<"error", "DecimalError">>]
            /\ UNCHANGED <<mutexLocked, mutexQueue>>
    /\ UNCHANGED <<mvars, gvars, svars, nextNonce, unsignedTx, tx, stage>>
    /\ Requested

\* await this.headlessGraphQLClient.createUnsignedTx(...) returned.
CreateUnsignedTx(c) ==
    /\ tpc[c] = "createUnsignedTx"
    /\ unsignedTx' = [unsignedTx EXCEPT ![c] =
                         Base64([action |->
                                     Decode(Base64(plainValue(amount[c],
                                                              memo[c]))),
                                 publicKey |-> "KMS_PROVIDER_PUBLIC_KEY",
                                 nonce |-> nextNonce])]
    /\ nextNonce' = nextNonce + 1
    /\ rpc' = [rpc EXCEPT ![c] =
                  Append(@, [op |-> "sign",
                             to |-> <<"signer">>,
                             arg |-> Hex(Decode(unsignedTx'[c]))])]
    /\ tpc' = [tpc EXCEPT ![c] = "sign"]
    /\ UNCHANGED <<mvars, gvars, svars, amount, memo, mutexLocked,
                   mutexQueue, tx, stage, result>>

\* createUnsignedTx threw.
CreateUnsignedTxFails(c) ==
    /\ tpc[c] = "createUnsignedTx"
    /\ Release(c, <<"error", "createUnsignedTx">>)
    /\ UNCHANGED <<mvars, gvars, svars, amount, memo, nextNonce, unsignedTx,
                   tx, stage>>
    /\ Requested

\* await this._signer.sign(hex of unsignedTx) returned; every client's
\* stageTx is called with the base64 of tx.
Sign(c) ==
    /\ tpc[c] = "sign"
    /\ tx' = [tx EXCEPT ![c] =
                 Hex([signed |-> Decode(Hex(Decode(unsignedTx[c])))])]
    /\ stage' = [stage EXCEPT ![c] = [e \in Clients |-> "pending"]]
    /\ rpc' = [rpc EXCEPT ![c] =
                  @ \o [e \in Clients |->
                           [op |-> "stageTx",
                            to |-> <<"client", e>>,
                            arg |-> Base64(Decode(tx'[c]))]]]
    /\ tpc' = [tpc EXCEPT ![c] = "stageTx"]
    /\ UNCHANGED <<mvars, gvars, svars, amount, memo, mutexLocked, mutexQueue,
                   nextNonce, unsignedTx, result>>

\* The signer threw.
SignFails(c) ==
    /\ tpc[c] = "sign"
    /\ Release(c, <<"error", "sign">>)
    /\ UNCHANGED <<mvars, gvars, svars, amount, memo, nextNonce, unsignedTx,
                   tx, stage>>
    /\ Requested

\* One client's stageTx settled: it returned true or false, or it threw.
StageTx(c, e, outcome) ==
    /\ tpc[c] = "stageTx"
    /\ stage[c][e] = "pending"
    /\ stage' = [stage EXCEPT ![c][e] = outcome]
    /\ UNCHANGED <<mvars, gvars, svars, tpc, amount, memo, mutexLocked,
                   mutexQueue, nextNonce, unsignedTx, tx, result, rpc>>

\* .then((success) => success).catch((error) => false)
StageResult(outcome) == outcome = "true"

\* A mutant of successAtLeastOne: stageResults.reduce((a, b) => a && b)
successAll(stageResults) ==
    \A e \in DOMAIN stageResults : stageResults[e]

\* stageResults.reduce((a, b) => a || b)
successAtLeastOne(stageResults) ==
    \E e \in DOMAIN stageResults : stageResults[e]

\* createHash("sha256").update(tx, "hex").digest().toString("hex")
txId(signedTx) == Hex(SHA256(Decode(signedTx)))

\* Promise.all resolved: throw, or return the txId.
Staged(c) ==
    /\ tpc[c] = "stageTx"
    /\ AllSettled(c)
    /\ LET stageResults == [e \in Clients |-> StageResult(stage[c][e])] IN
       IF ~successAtLeastOne(stageResults)
       THEN Release(c, <<"error", "Failed to stage transaction">>)
       ELSE Release(c, <<"txId", txId(tx[c])>>)
    /\ UNCHANGED <<mvars, gvars, svars, amount, memo, nextNonce, unsignedTx,
                   tx, stage>>
    /\ Requested

\* The calls carry no memo here: a memo reaches nothing but the plainValue,
\* and AmountNext takes the calls with one.
TransferNext ==
    \/ \E c \in Calls, a \in Amounts : Transfer(c, a, <<>>)
    \/ \E c \in Calls : CreateUnsignedTx(c)
    \/ \E c \in Calls : CreateUnsignedTxFails(c)
    \/ \E c \in Calls : Sign(c)
    \/ \E c \in Calls : SignFails(c)
    \/ \E c \in Calls, e \in Clients, o \in {"true", "false", "threw"} :
          StageTx(c, e, o)
    \/ \E c \in Calls : Staged(c)

\* No settled transfer() promise is left for its caller to take.
NoneReturned == \A d \in AllCalls : tpc[d] # "done"

\* The caller's await of transfer() takes the settled promise.  The locals
\* of the call are gone, and a later call of transfer() is a new one.
AwaitTransfer(c) ==
    /\ tpc[c] = "done"
    /\ tpc' = [tpc EXCEPT ![c] = "idle"]
    /\ amount' = [amount EXCEPT ![c] = NotDecimal]
    /\ memo' = [memo EXCEPT ![c] = <<>>]
    /\ unsignedTx' = [unsignedTx EXCEPT ![c] = <<>>]
    /\ tx' = [tx EXCEPT ![c] = <<>>]
    /\ stage' = [stage EXCEPT ![c] = [e \in Clients |-> "none"]]
    /\ result' = [result EXCEPT ![c] = <<>>]
    /\ rpc' = [rpc EXCEPT ![c] = <<>>]
    /\ UNCHANGED <<mvars, gvars, svars, mutexLocked, mutexQueue, nextNonce>>

\* transfer() is called once more, while fewer than MaxWaiters + 1 calls
\* are pending.  The reactions of a settled promise run before the next
\* event is handled, so no settled promise is left by then.  The calls
\* carry no memo, as in TransferNext.
TransferArrives(c) ==
    /\ NoneReturned
    /\ \A d \in 1..(c - 1) : tpc[d] # "idle"
    /\ \E a \in Amounts : Transfer(c, a, <<>>)

\* An awaited call of a pending transfer settles: it returns or it throws.
\* The node builds MaxNonce transactions and fails createUnsignedTx after
\* that.
TransferLiveSettles ==
    /\ NoneReturned
    /\ \E c \in LiveCalls :
          \/ nextNonce < MaxNonce /\ CreateUnsignedTx(c)
          \/ CreateUnsignedTxFails(c)
          \/ Sign(c)
          \/ SignFails(c)
          \/ \E e \in Clients, o \in {"true", "false", "threw"} :
                StageTx(c, e, o)
          \/ Staged(c)

\* A settled transfer() is taken by its caller.
TransferReturns == \E c \in LiveCalls : AwaitTransfer(c)

\* The observers call transfer() again and again, at any time.
TransferLiveNext ==
    \/ \E c \in LiveCalls : TransferArrives(c)
    \/ TransferLiveSettles
    \/ TransferReturns

\* The amount arguments of AmountSpec: an integer part followed by up to
\* MaxDecimals equal decimals.
IntegerParts == {<<0>>, <<5, 0>>, <<1, 0, 0>>, <<1, 2, 3, 4, 5>>}

AmountInputs ==
    Amounts \cup
    {[valid |-> TRUE, int |-> i, frac |-> [j \in 1..n |-> d]] :
        i \in IntegerParts, n \in 0..MaxDecimals, d \in {0, 1, 9}}

\* One transfer call, with a memo or without, up to the request that
\* carries its plainValue and the unsigned transaction built from it.
AmountNext ==
    \/ \E a \in AmountInputs, m \in Memos : Transfer(1, a, m)
    \/ CreateUnsignedTx(1)

\* -------------------------------------------------------------- the minter

\* GAS_TIP_RATIO as a fraction <<numerator, denominator>>: 1, 1.5 and 2.5.
Ratios == {<<1, 1>>, <<3, 2>>, <<5, 2>>}

\* The gas prices the node reports, and the values of MAX_GAS_PRICE.
GasPrices == 0..MaxGasPrice

Min(a, b) == IF a <= b THEN a ELSE b

\* policies/gas-price: TipPolicy(r) is p -> floor(p * r), LimitPolicy(cap)
\* is p -> min(p, cap), and GasPricePolicies applies its list left to right.
GasPriceTipPolicy(r, p) == (p * r[1]) \div r[2]
GasPriceLimitPolicy(cap, p) == Min(p, cap)
GasPricePolicies(r, cap, p) ==
    GasPriceLimitPolicy(cap, GasPriceTipPolicy(r, p))

\* gasPrice.mul(this._gasTipRatio).floor()
gasPriceWithTip(p, r) == (p * r[1]) \div r[2]

\* The fourth argument of new WrappedNCGMinter(...), which the constructor
\* stores as _gasTipRatio: a Decimal, as the signature says, or the
\* GasPricePolicies object index.ts passes, built from GAS_TIP_RATIO (ratio)
\* and MAX_GAS_PRICE.
GasTipRatioArguments ==
    [class : {"Decimal", "GasPricePolicies"}, ratio : Ratios]

\* gasPrice.mul(y) begins with new Decimal(y), which takes a Decimal, a
\* number or a numeric string and throws "[DecimalError] Invalid argument"
\* for any other object.
isDecimalInstance(y) == y.class = "Decimal"

MinterInit ==
    /\ gpc = "idle"
    /\ gasTipRatio \in GasTipRatioArguments
    /\ maxGasPrice \in GasPrices
    /\ gasPrice = Undefined
    /\ sentGasPrice = Undefined
    /\ invoked = <<>>

\* mint(address, amount, callback, errorCallback) is called:
\* this._web3.eth.getGasPrice() is requested.
Mint ==
    /\ gpc = "idle"
    /\ gpc' = "getGasPrice"
    /\ UNCHANGED <<mvars, tvars, svars, gasTipRatio, maxGasPrice, gasPrice,
                   sentGasPrice, invoked>>

\* getGasPrice() resolves and the .then callback runs.  With a Decimal in
\* _gasTipRatio it sends the mint transaction with
\* gasPrice: gasPriceWithTip.toString().  With the GasPricePolicies object
\* there, gasPrice.mul(this._gasTipRatio) throws before send(...): the
\* promise returned by .then(...) rejects and has no rejection handler, so
\* nothing is sent and neither callback is invoked.
GetGasPrice(p) ==
    /\ gpc = "getGasPrice"
    /\ gasPrice' = p
    /\ IF isDecimalInstance(gasTipRatio)
       THEN /\ sentGasPrice' = gasPriceWithTip(p, gasTipRatio.ratio)
            /\ gpc' = "send"
       ELSE /\ sentGasPrice' = sentGasPrice
            /\ gpc' = "rejected"
    /\ UNCHANGED <<mvars, tvars, svars, gasTipRatio, maxGasPrice, invoked>>

\* getGasPrice() rejects: the promise returned by .then(...) has no
\* rejection handler, so the rejection reaches neither callback.
GetGasPriceRejects ==
    /\ gpc = "getGasPrice"
    /\ gpc' = "rejected"
    /\ UNCHANGED <<mvars, tvars, svars, gasTipRatio, maxGasPrice, gasPrice,
                   sentGasPrice, invoked>>

\* send(...) resolves with the receipt: .then(callback); if callback throws,
\* the .catch that follows it passes the error to errorCallback.
SendResolves(throws) ==
    /\ gpc = "send"
    /\ invoked' = IF throws
                  THEN invoked \o <<"callback", "errorCallback">>
                  ELSE Append(invoked, "callback")
    /\ gpc' = "done"
    /\ UNCHANGED <<mvars, tvars, svars, gasTipRatio, maxGasPrice, gasPrice,
                   sentGasPrice>>

\* send(...) rejects: .catch(errorCallback).
SendRejects ==
    /\ gpc = "send"
    /\ invoked' = Append(invoked, "errorCallback")
    /\ gpc' = "failed"
    /\ UNCHANGED <<mvars, tvars, svars, gasTipRatio, maxGasPrice, gasPrice,
                   sentGasPrice>>

MinterNext ==
    \/ Mint
    \/ \E p \in GasPrices : GetGasPrice(p)
    \/ GetGasPriceRejects
    \/ \E throws \in BOOLEAN : SendResolves(throws)
    \/ SendRejects

\* ------------------------------------------------------------- the startup

\* An address string: its hex digits and whether it is written in the
\* mixed-case checksum form.
toLowerCase(address) == [address EXCEPT !.checksummed = FALSE]

\* What the configuration and the collaborators hold when the process starts.
Environments ==
    [missingKey : BOOLEAN,
     storesOpen : BOOLEAN,
     minterIsAddress : BOOLEAN,
     kmsAddresses : {<<>>,
                     <<[hex |-> "ab", checksummed |-> TRUE]>>,
                     <<[hex |-> "ab", checksummed |-> TRUE],
                       [hex |-> "cd", checksummed |-> TRUE]>>},
     derivedAddress : {[hex |-> "ab", checksummed |-> FALSE],
                       [hex |-> "cd", checksummed |-> FALSE]},
     loadFails : {"none", "ethereum", "nineChronicles"}]

Monitors == {"ethereum", "nineChronicles"}

StartupInit ==
    /\ spc = "config"
    /\ env \in Environments
    /\ exit = <<>>
    /\ started = {}

\* A mutant of DerivedMismatch: the public key is not checked.
DerivedMismatchIgnored(kmsAddress, derivedAddress) == FALSE

\* kmsAddress.toLowerCase() !== derivedAddress.toLowerCase()
DerivedMismatch(kmsAddress, derivedAddress) ==
    toLowerCase(kmsAddress) # toLowerCase(derivedAddress)

\* The async function's next statement group, or the throw that ends it:
\* .catch(error => { console.error(error); process.exit(-1); })
Proceed(failed, next) ==
    /\ spc' = IF failed THEN "exited" ELSE next
    /\ exit' = IF failed THEN <<-1>> ELSE exit
    /\ UNCHANGED <<mvars, tvars, gvars, env, started>>

\* Configuration.get(...) of every key; a missing required key throws.
ReadConfiguration ==
    /\ spc = "config"
    /\ Proceed(env.missingKey, "open")

\* await Sqlite3MonitorStateStore.open, Sqlite3ExchangeHistoryStore.open
OpenStores ==
    /\ spc = "open"
    /\ Proceed(~env.storesOpen, "isAddress")

\* if (!web3.utils.isAddress(NCG_MINTER)) throw
CheckMinter ==
    /\ spc = "isAddress"
    /\ Proceed(~env.minterIsAddress, "getAccounts")

\* await kmsProvider.getAccounts(); if (kmsAddresses.length != 1) throw
GetAccounts ==
    /\ spc = "getAccounts"
    /\ Proceed(Len(env.kmsAddresses) # 1, "derive")

\* derivedAddress from KMS_PROVIDER_PUBLIC_KEY against kmsAddresses[0]
CheckDerivedAddress ==
    /\ spc = "derive"
    /\ Proceed(DerivedMismatch(env.kmsAddresses[1], env.derivedAddress),
               "loadEthereum")

\* await monitorStateStore.load("ethereum")
LoadEthereum ==
    /\ spc = "loadEthereum"
    /\ Proceed(env.loadFails = "ethereum", "loadNineChronicles")

\* await monitorStateStore.load("nineChronicles")
LoadNineChronicles ==
    /\ spc = "loadNineChronicles"
    /\ Proceed(env.loadFails = "nineChronicles", "run")

\* ethereumBurnEventMonitor.run(); nineChroniclesMonitor.run();
Run ==
    /\ spc = "run"
    /\ started' = Monitors
    /\ spc' = "running"
    /\ UNCHANGED <<mvars, tvars, gvars, env, exit>>

StartupNext ==
    \/ ReadConfiguration
    \/ OpenStores
    \/ CheckMinter
    \/ GetAccounts
    \/ CheckDerivedAddress
    \/ LoadEthereum
    \/ LoadNineChronicles
    \/ Run

\* ------------------------------------------------------------- the claims

IsMain(y) == y.phase = "main"
\* The envelopes the while loop yielded in this run.
MainYields == SelectSeq(yielded, IsMain)

LoopPcs == {"loop", "for", "events", "delay"}

\* A transfer call is inside the callback of runExclusive.
InCriticalSection(c) == tpc[c] \in {"createUnsignedTx", "sign", "stageTx"}

\* C1: at most one transfer call is inside the critical section at any time:
\* at most one createUnsignedTx call is in flight, and none starts while
\* another call is still building, signing or staging.
C1_SignerSerialized ==
    /\ Cardinality({c \in Calls : tpc[c] = "createUnsignedTx"}) <= 1
    /\ Cardinality({c \in Calls : InCriticalSection(c)}) <= 1

C1_Witness ==
    \E c, d \in Calls :
        /\ tpc[c] = "createUnsignedTx"
        /\ tpc[d] = "waiting"

\* C2: with the identity hook, each envelope the while loop yields is for
\* the block that follows the block of the previous one.
C2_NoBlockSkipped ==
    hook = "identity" =>
        \A n \in 1..(Len(MainYields) - 1) :
            MainYields[n + 1].block = MainYields[n].block + 1

C2_Witness ==
    /\ hook = "identity"
    /\ Len(MainYields) >= 3
    /\ captured >= 1

\* C3: when the monitor resumed from a cursor, the first block the while
\* loop yields is nextBlockIndex (identity hook).
C3_ResumesAtNextBlockIndex ==
    (hook = "identity" /\ resume # <<>> /\ MainYields # <<>>) =>
        MainYields[1].block = nextBlockIndex

\* C4: the block indices of the envelopes yielded in one run are strictly
\* increasing.
C4_StrictlyIncreasing ==
    \A n \in 1..(Len(yielded) - 1) : yielded[n].block < yielded[n + 1].block

\* C5: every envelope is yielded for a block at least CONFIRMATIONS below
\* the chain's tip, and the while loop yields no index above the tipIndex
\* it read in that iteration.
C5_ConfirmationDepth ==
    [][Len(yielded') > Len(yielded) =>
        LET y == yielded'[Len(yielded')] IN
        /\ actualTip - y.block >= CONFIRMATIONS
        /\ y.phase = "main" => y.block <= tipIndex]_vars

C5_Witness ==
    /\ Len(MainYields) >= 1
    /\ Len(yielded) > Len(MainYields)
    /\ actualTip - yielded[Len(yielded)].block = CONFIRMATIONS

\* C6: at most one counter-chain emission is made for a source event, also
\* when the monitor is restarted from an earlier cursor (identity hook).
C6_AtMostOneEmission ==
    hook = "identity" => \A x \in TxIds : emitted[x] <= 1

\* C7: an error raised inside the while loop is reported to the
\* error-capture sink and does not end the loop.
C7_LoopSurvivesErrors ==
    [][(mpc \in LoopPcs /\ restarts' = restarts) =>
          /\ mpc' \in LoopPcs
          /\ captured' \in {captured, captured + 1}
          /\ (mpc \in {"for", "events"} /\ mpc' = "loop" /\ latest' = latest)
                => captured' = captured + 1]_vars

C7_Witness ==
    /\ captured >= 2
    /\ mpc = "events"

\* C8: an iteration that fails with an RPC error while the monitor has not
\* yielded for more than 5 minutes and the tip is beyond its latest block
\* invokes the integrations' error().
C8_StallPaged ==
    [][(/\ mpc \in {"loop", "for", "events"}
        /\ captured' = captured + 1
        /\ Triggered(getTipIndex)
        /\ TimedOut) => alert' # {}]_vars

\* C9: a transfer that reached the fan-out returns txId = SHA-256(tx) iff
\* some client's stageTx returned true, and throws the stage failure iff
\* every client's stageTx returned false or threw; no transfer returns a
\* txId otherwise.
C9_FanOut ==
    \A c \in Calls : tpc[c] = "done" =>
        LET accepted == \E e \in Clients : stage[c][e] = "true"
            rejected == \A e \in Clients : stage[c][e] \in {"false", "threw"}
        IN  /\ (/\ tx[c] # <<>>
                 /\ result[c] = <<"txId", Hex(SHA256(Decode(tx[c])))>>)
                   <=> accepted
            /\ result[c][1] = "txId" <=> accepted
            /\ result[c] = <<"error", "Failed to stage transaction">>
                  <=> rejected

C9_Witness ==
    \E c \in Calls :
        /\ tpc[c] = "done"
        /\ result[c][1] = "txId"
        /\ \E e \in Clients : stage[c][e] = "threw"

\* C10: a transfer that failed inside the critical section settled with its
\* error, and the mutex is held only while a call is inside the critical
\* section: calls wait only for a call that is inside it.
C10_ReleasedOnFailure ==
    /\ mutexLocked <=> \E c \in Calls : InCriticalSection(c)
    /\ (\E c \in Calls : tpc[c] = "waiting") => mutexLocked
    /\ \A c \in Calls :
          (tpc[c] = "done" /\ ~\E e \in Clients : stage[c][e] = "true")
              => result[c][1] = "error"

C10_Witness ==
    \E c, d \in Calls :
        /\ tpc[c] = "done"
        /\ result[c] = <<"error", "sign">>
        /\ tpc[d] = "done"
        /\ result[d][1] = "txId"
        /\ Decode(unsignedTx[d]).nonce > Decode(unsignedTx[c]).nonce

\* C11: once the gas price p is fetched, the gas price put on the mint
\* transaction is min(floor(p * r), cap) for the tip ratio r and the cap; it
\* never exceeds cap.
C11_GasPriceCapped ==
    gasPrice # Undefined =>
        /\ sentGasPrice =
              GasPricePolicies(gasTipRatio.ratio, maxGasPrice, gasPrice)
        /\ sentGasPrice <= maxGasPrice

\* C12: a mint call that has ended invoked exactly one of its two callbacks,
\* and a mint that met an error at any step invoked errorCallback.
C12_ExactlyOneCallback ==
    /\ gpc \in {"done", "failed", "rejected"} => Len(invoked) = 1
    /\ gpc \in {"failed", "rejected"} => invoked = <<"errorCallback">>

\* C13: a startup whose configuration or collaborators fail a check ends
\* with exit code -1 at that check, and no monitor is ever started.
StartupFails(e) ==
    \/ e.missingKey
    \/ ~e.storesOpen
    \/ ~e.minterIsAddress
    \/ Len(e.kmsAddresses) # 1
    \/ e.kmsAddresses[1].hex # e.derivedAddress.hex
    \/ e.loadFails # "none"

C13_FailStop ==
    /\ StartupFails(env) => started = {} /\ spc # "running"
    /\ spc = "exited" => exit = <<-1>> /\ StartupFails(env)
    /\ started # {} => spc = "running" /\ exit = <<>>
    /\ spc = "loadEthereum" =>
           env.kmsAddresses[1].hex = env.derivedAddress.hex

C13_Witness ==
    /\ spc = "exited"
    /\ exit = <<-1>>
    /\ Len(env.kmsAddresses) = 1
    /\ env.kmsAddresses[1].hex # env.derivedAddress.hex
    /\ ~env.missingKey /\ env.storesOpen /\ env.minterIsAddress

\* C15: an iteration that finds latest + 1 > tip yields nothing, leaves
\* latest and updatedAt as they are and goes to sleep; it calls error() on
\* every integration, with the current latest, exactly when more than
\* TIMEOUT ms have passed since updatedAt.  An iteration that yields a block
\* sends no alert.
C15_AtTip ==
    [][/\ (mpc = "loop" /\ latest + 1 > getTipIndex /\ mpc' # "loop"
           /\ restarts' = restarts)
          => mpc' = "delay"
       /\ (mpc = "loop" /\ mpc' = "delay")
          => /\ latest + 1 > tipIndex'
             /\ UNCHANGED <<latest, updatedAt, yielded>>
             /\ alert' = IF now - updatedAt > 5 * 60 * 1000
                         THEN {[integration |-> i, latestBlockNumber |-> latest] :
                                  i \in Integrations}
                         ELSE {}
       /\ mpc' \in {"for", "events"} => alert' = {}
       /\ Len(yielded') > Len(yielded) => alert = {} /\ alert' = {}]_vars

C15_Witness ==
    /\ mpc = "delay"
    /\ alert # {}
    /\ Len(MainYields) >= 1

\* C16: a fresh start sets latest to the tip index it reads; after it no
\* block at or below that starting tip is yielded, and the first envelope is
\* for block startingTip + 1.
C16_FreshStart ==
    [][/\ (mpc = "start" /\ resume = <<>> /\ mpc' = "loop")
          => latest' = actualTip - CONFIRMATIONS /\ startingTip' = latest'
       /\ (resume = <<>> /\ mpc \in LoopPcs)
          => /\ startingTip # Undefined
             /\ startingTip <= latest
             /\ \A n \in 1..Len(yielded) : yielded[n].block > startingTip
             /\ yielded # <<>> => yielded[1].block = startingTip + 1]_vars

C16_Witness ==
    /\ resume = <<>>
    /\ startingTip = 2
    /\ Len(yielded) >= 2
    /\ yielded[Len(yielded)].block = startingTip + 2
    /\ captured >= 1

\* C17: in one transfer the unsigned transaction is requested once, from the
\* first configured client only; the signer is called only after that
\* request returned; stageTx is called once on every configured client, only
\* after the signer returned and with the one signed transaction; a txId is
\* returned only after all of that; and a transfer whose building or
\* signing failed sent no stageTx.
C17_ProtocolOrder ==
    \A c \in Calls :
        LET log == rpc[c] IN
        /\ Len(log) \in {0, 1, 2, 2 + 1 + StageHeadlesses}
        /\ Len(log) >= 1 =>
               /\ log[1].op = "createUnsignedTx"
               /\ log[1].to = <<"client", 1>>
        /\ Len(log) >= 2 =>
               /\ log[2].op = "sign"
               /\ unsignedTx[c] # <<>>
               /\ log[2].arg = Hex(Decode(unsignedTx[c]))
        /\ \A n \in 3..Len(log) :
               /\ log[n].op = "stageTx"
               /\ log[n].to = <<"client", n - 2>>
               /\ tx[c] # <<>>
               /\ log[n].arg = Base64(Decode(tx[c]))
        /\ (result[c] # <<>> /\ result[c][1] = "txId") =>
               /\ Len(log) = 2 + 1 + StageHeadlesses
               /\ \A e \in Clients : stage[c][e] \in {"true", "false", "threw"}
        /\ (result[c] # <<>> /\ result[c][1] = "error"
               /\ result[c][2] \in {"createUnsignedTx", "sign"}) =>
               Len(log) <= 2

\* One transfer returned its txId and another failed at the signer.
C17_Witness ==
    \E c, d \in Calls :
        /\ result[c] # <<>> /\ result[c][1] = "txId"
        /\ Len(rpc[c]) = 2 + 1 + StageHeadlesses
        /\ result[d] = <<"error", "sign">>
        /\ Len(rpc[d]) = 2

\* C20: a transfer keeps the mutex until the stageTx call of every client
\* has settled, whatever the others answered: while one is pending the call
\* has not returned, no other call is inside the callback, and a waiting
\* call keeps waiting.
C20_HeldUntilAllSettled ==
    [][\A c \in Calls :
          (\E e \in Clients : stage[c][e] = "pending") =>
              /\ tpc[c] = "stageTx"
              /\ result[c] = <<>>
              /\ mutexLocked
              /\ \A d \in Calls \ {c} :
                     /\ ~InCriticalSection(d)
                     /\ (\E e \in Clients : stage'[c][e] = "pending") =>
                            /\ ~InCriticalSection(d)'
                            /\ tpc[d] = "waiting" => tpc'[d] = "waiting"]_vars

\* One client has accepted, another has not answered, and a later transfer
\* is waiting for the mutex.
C20_Witness ==
    \E c, d \in Calls :
        /\ tpc[c] = "stageTx"
        /\ \E e \in Clients : stage[c][e] = "true"
        /\ \E e \in Clients : stage[c][e] = "pending"
        /\ tpc[d] = "waiting"

\* C18: a failed RPC call inside a while-loop iteration leaves latest and
\* updatedAt unchanged and sends the loop back to its top, where the next
\* iteration asks for triggerredBlocks(latest + 1) again; latest changes
\* only by + 1, and only when every index of the iteration was yielded.
C18_UnchangedOnError ==
    [][/\ (captured' = captured + 1)
          => UNCHANGED <<latest, updatedAt, yielded>> /\ mpc' = "loop"
       /\ (mpc = "loop" /\ mpc' = "for")
          => /\ indices' = triggerredBlocks(latest + 1)
             /\ hook = "identity" => indices' = <<latest + 1>>
       /\ (mpc \in LoopPcs /\ latest' # latest /\ restarts' = restarts)
          => /\ latest' = latest + 1
             /\ Len(MainYields) >= Len(indices)
             /\ \A j \in 1..Len(indices) :
                    MainYields[Len(MainYields) - Len(indices) + j].block
                        = indices[j]]_vars

\* An iteration of several indices failed after its first yield, and the
\* loop is back at its top with the same latest.
C18_Witness ==
    /\ mpc = "loop"
    /\ captured >= 1
    /\ hook = "steps"
    /\ Len(MainYields) = 1
    /\ latest + 1 <= getTipIndex

\* C19: a throw of processRemains or of the first getTipIndex is not handled
\* by the catch of the while loop: the generator ends there, with no
\* captureException, and no main-loop envelope is yielded in that run.
C19_StartupErrorTerminates ==
    [][/\ (mpc = "start" /\ mpc' # "start")
          => \/ /\ mpc' = "terminated"
                /\ UNCHANGED <<yielded, captured, latest>>
             \/ /\ mpc' = "replay"
                /\ captured' = captured
             \/ /\ mpc' = "loop"
                /\ captured' = captured
                /\ latest' = actualTip - CONFIRMATIONS
       /\ (mpc = "terminated" /\ restarts' = restarts)
          => UNCHANGED <<mpc, yielded, captured, latest>>
       /\ mpc = "terminated"
          => MainYields = <<>> /\ captured = 0 /\ latest = Undefined]_vars

C19_Witness ==
    /\ mpc = "terminated"
    /\ resume # <<>>
    /\ restarts = 1

\* C14: the integer amount in the transfer_asset3 action is floor(a * 100)
\* for the amount argument a: the digits of a with the point moved two
\* places right and the rest cut off, the one integer n with
\* n / 100 <= a < (n + 1) / 100.
FloorTimes100(a) ==
    toNumber(a.int \o SubSeq(a.frac \o <<0, 0>>, 1, 2))

C14_RoundedDown ==
    \A c \in Calls :
        unsignedTx[c] # <<>> =>
            Decode(unsignedTx[c]).action.values.amount[2]
                = FloorTimes100(amount[c])

\* The while loop has yielded block b.
YieldedMain(b) ==
    \E n \in 1..Len(yielded) :
        yielded[n].block = b /\ yielded[n].phase = "main"

\* The value latestBlockNumber had when the while loop was entered: the tip
\* index a fresh start read, or the nextBlockIndex of processRemains.
StartingLatest == IF resume = <<>> THEN startingTip ELSE nextBlockIndex

\* Block b is above the starting latest and at or below the tip index.
Owed(b) == mpc \in LoopPcs /\ StartingLatest < b /\ b <= getTipIndex

\* The owed blocks the while loop has not yielded.
Missing == {b \in 0..MaxTip : Owed(b) /\ ~YieldedMain(b)}

\* C21: when the loop takes its steps and the RPC calls stop failing, every
\* block index above the starting latest that is at or below the tip index
\* is eventually yielded by the while loop: whenever owed blocks are missing,
\* the loop comes to a state where none is.  (In a run an owed block stays
\* owed and a yielded block stays yielded.)
C21_EventuallyYielded == (Missing # {}) ~> (Missing = {})

\* The tip is two blocks ahead of a loop that has met an RPC failure.
C21_Witness ==
    /\ mpc = "loop"
    /\ captured >= 1
    /\ latest + 2 <= getTipIndex
    /\ ~YieldedMain(latest + 1)

\* The call has entered the callback of runExclusive (it has sent the
\* callback's first request), and transfer() has settled: it returned a txId
\* or it threw.
EnteredAndReturned(c) ==
    /\ rpc[c] # <<>>
    /\ tpc[c] = "done"
    /\ Len(result[c]) = 2
    /\ result[c][1] \in {"txId", "error"}

\* C22: when every awaited createUnsignedTx, sign and stageTx call settles,
\* a transfer call that waits for the mutex eventually enters the callback
\* of runExclusive and returns a txId or an error, however many calls
\* arrive after it.
C22_NoStarvation ==
    \A c \in LiveCalls : (tpc[c] = "waiting") ~> EnteredAndReturned(c)

\* Two transfers wait, one behind the other, while the endpoints of the
\* transfer ahead of them answer, one of them with a throw.
C22_Witness ==
    \E d \in LiveCalls :
        /\ Len(mutexQueue) >= 2
        /\ tpc[d] = "stageTx"
        /\ \E e \in Clients : stage[d][e] = "threw"
        /\ \E e \in Clients : stage[d][e] = "pending"

\* C23: once more than TIMEOUT ms have passed since updatedAt, every poll
\* that finds the monitor at tip calls error() on every integration, the
\* poll after an alerting poll included, because firing the alert does not
\* assign updatedAt; only the iteration that processed latest + 1 assigns
\* it, and the poll that follows that iteration sends no alert.
C23_AlertsEveryPoll ==
    [][/\ (mpc = "loop" /\ mpc' = "delay" /\ now - updatedAt > 5 * 60 * 1000)
          => /\ {a.integration : a \in alert'} = Integrations
             /\ updatedAt' = updatedAt
             /\ now' - updatedAt' > 5 * 60 * 1000
       /\ (mpc = "delay" /\ mpc' = "loop")
          => UNCHANGED <<updatedAt, latest, alert>>
       /\ (mpc \in LoopPcs /\ updatedAt' # updatedAt /\ restarts' = restarts)
          => /\ mpc = "for" /\ mpc' = "loop"
             /\ latest' = latest + 1
             /\ updatedAt' = now
       /\ (mpc = "loop" /\ mpc' = "delay" /\ now = updatedAt)
          => alert' = {}]_vars

\* The poll before this one alerted, and the monitor is still at tip with
\* the timeout exceeded: the next poll alerts again.
C23_Witness ==
    /\ mpc = "loop"
    /\ alert # {}
    /\ now - updatedAt > 5 * 60 * 1000
    /\ latest + 1 > getTipIndex

\* The monitor of TransferSpec stays where loop() starts.
MonitorStopped ==
    /\ MonitorInit
    /\ network = "ethereum"
    /\ hook = "identity"
    /\ actualTip = CONFIRMATIONS + 1
    /\ resume = <<>>

\* The minter of the other specifications is the one index.ts constructs,
\* and it has not been called.
MinterIdle ==
    /\ MinterInit
    /\ gasTipRatio = [class |-> "GasPricePolicies", ratio |-> <<1, 1>>]
    /\ maxGasPrice = MaxGasPrice

\* The startup of the other specifications has passed every check.
StartupPassed ==
    /\ spc = "running"
    /\ env = [missingKey |-> FALSE,
              storesOpen |-> TRUE,
              minterIsAddress |-> TRUE,
              kmsAddresses |-> <<[hex |-> "ab", checksummed |-> TRUE]>>,
              derivedAddress |-> [hex |-> "ab", checksummed |-> FALSE],
              loadFails |-> "none"]
    /\ exit = <<>>
    /\ started = Monitors

MonitorSpecInit == MonitorInit /\ TransferInit /\ MinterIdle /\ StartupPassed

TransferSpecInit ==
    MonitorStopped /\ TransferInit /\ MinterIdle /\ StartupPassed

AmountSpecInit ==
    MonitorStopped /\ TransferInit /\ MinterIdle /\ StartupPassed

\* The minter as index.ts constructs it (the policies object in
\* _gasTipRatio), and as a caller that follows the constructor's signature
\* does (a Decimal there).
MinterSpecInit ==
    MonitorStopped /\ TransferInit /\ MinterInit /\ StartupPassed

StartupSpecInit ==
    MonitorStopped /\ TransferInit /\ MinterIdle /\ StartupInit

MonitorSpec == MonitorSpecInit /\ [][MonitorNext]_vars

\* One run of the monitor in which loop() keeps taking its steps.
MonitorLiveSpec ==
    MonitorSpecInit /\ [][MonitorRunNext]_vars /\ WF_vars(MonitorStep)

TransferSpec == TransferSpecInit /\ [][TransferNext]_vars

\* The transfers when every settled transfer() is taken by its caller and
\* every awaited call that is in flight settles, whatever else happens in
\* between.
TransferLiveSpec ==
    TransferSpecInit /\ [][TransferLiveNext]_vars
        /\ WF_vars(TransferReturns) /\ SF_vars(TransferLiveSettles)

AmountSpec == AmountSpecInit /\ [][AmountNext]_vars

MinterSpec == MinterSpecInit /\ [][MinterNext]_vars

StartupSpec == StartupSpecInit /\ [][StartupNext]_vars

====
